---- MODULE Spec2Model ----
(***************************************************************************)
(* crvusdsim: the StateLog recorder (metrics/state_log/state_log.py), the  *)
(* argument parsing of autosim (sim/__init__.py) and the band seeding that *)
(* test/sim_interface/test_bands_strategy.py exercises, and the price      *)
(* aggregator of pool/sim_interface/sim_aggregator.py.                     *)
(*                                                                         *)
(* Five specifications share the variables:                                *)
(*   Spec        one StateLog instance driven by a simulation loop         *)
(*   SpecParse   one autosim() call                                        *)
(*   SpecBands   one band initialization followed by prepare_for_run       *)
(*   SpecTwo     two StateLog instances driven in any interleaving         *)
(*   SpecAgg     SimAggregateStablePrice.prepare_for_run, run after run    *)
(* A Python dict entry that may be missing, and a slot that may be unset,  *)
(* is an option: None (<<>>) or Some(v) (<<v>>).                           *)
(***************************************************************************)
EXTENDS Integers, Sequences, FiniteSets, TLC

\* ---------------------------------------------------------------- bounds
\* update() calls in one run
MaxUpdates == 2
\* timestamps a price sample may carry: 1..MaxTs
MaxTs == 2
\* get_logs() / compute_metrics() calls in a row between two update() calls
MaxReductions == 3

None == <<>>
Some(v) == <<v>>

VARIABLES
    \* StateLog.__slots__ (pool and controller are references to the objects below)
    sim_mode, metrics, state_per_run, state_per_trade,
    \* the pool and controller objects the log refers to
    pool, controller,
    \* the driver of the log: the operation it ran last, what get_logs() and
    \* compute_metrics() returned to it since its last update(), the update()
    \* calls it made, whether it has reduced the run, and how many reductions it
    \* has run since its last update()
    last_op, logs_ret, metrics_ret, update_calls, reduced, n_reductions

VARIABLES
    \* the position of the autosim() call
    pc,
    \* its arguments: pool, pool_metadata, sim_mode, **kwargs
    call,
    \* its locals p_var and bands_strategy once _parse_arguments has returned
    p_var, bands_strategy,
    \* the exception that ended it, the arguments pipeline() was started with
    raised, pipeline_args

VARIABLES
    \* the position of the band initialization
    bpc,
    \* the price series and the deposit handed to the strategy
    prices, total_y,
    \* the simulated AMM: A, base_price, min_band, max_band, active_band,
    \* bands_x, bands_y, and its oracle's price and timestamp
    amm

VARIABLES
    \* two StateLog instances: their slots (state_per_trade, pool and controller
    \* are references), the list objects and the pool / controller objects the
    \* references point to
    instances, heap, objects,
    \* their driver: the update() calls made on each, the operation it ran last
    \* and what that operation returned
    two_calls, acting, two_ret

VARIABLES
    \* the position of the prepare_for_run call on the aggregator
    apc,
    \* the aggregator object: last_price, last_timestamp
    agg,
    \* the arguments of the call: prices, keep_price
    agg_args,
    \* the aggregator as the parent class's prepare_for_run left it
    parent_left

log_vars == <<sim_mode, metrics, state_per_run, state_per_trade, pool, controller,
              last_op, logs_ret, metrics_ret, update_calls, reduced, n_reductions>>
parse_vars == <<pc, call, p_var, bands_strategy, raised, pipeline_args>>
bands_vars == <<bpc, prices, total_y, amm>>
two_vars == <<instances, heap, objects, two_calls, acting, two_ret>>
agg_vars == <<apc, agg, agg_args, parent_left>>
vars == <<log_vars, parse_vars, bands_vars, two_vars, agg_vars>>

\* ============================================================== StateLog

RecognizedModes == {"pool", "controller", "N"}
\* "spot" stands for any sim_mode string outside the three the code tests for
SimModes == RecognizedModes \cup {"spot"}

\* the per-record fields (DataFrame columns) a run of the model can produce
Columns == {"state_data", "price_sample", "volume"}

\* the point-in-time states the simulation takes the pool and the controller through
PoolStates == 0..1

\* a price sample object: the code reads only its .timestamp
PriceSamples == {[timestamp |-> t] : t \in 1..MaxTs}

\* pool_state.get_pool_state(pool): a read of the pool's point-in-time state
get_pool_state(p) ==
    [extractor |-> "pool", pool |-> Some(p), controller |-> None]

\* controller_state.get_controller_state(pool, controller)
get_controller_state(p, c) ==
    [extractor |-> "controller", pool |-> Some(p), controller |-> Some(c)]

\* a state_data value the caller passes as a keyword of its own
CallerStateData == [extractor |-> "caller", pool |-> None, controller |-> None]

\* the keyword arguments of one update() call
KwargsChoices ==
    {kw \in [price_sample : {None} \cup {Some(s) : s \in PriceSamples},
             volume       : {None, Some(7)},
             state_data   : {None, Some(CallerStateData)}] :
        kw.volume = None \/ kw.state_data = None}

\* pool_parameters.get_*_parameters: the run-level snapshot of their argument
get_pool_parameters(p) == [snapshot |-> "pool_parameters", of |-> p]
get_controller_parameters(c) == [snapshot |-> "controller_parameters", of |-> c]
get_N_parameters(params) == [snapshot |-> "N_parameters", of |-> params]

\* the metric objects handed to the constructor
PlainMetric == [name |-> "oracle_tracking", is_pool_metric |-> FALSE, pool |-> None]
ValueMetric == [name |-> "pool_value", is_pool_metric |-> TRUE, pool |-> None]
MetricLists == {<<>>, <<ValueMetric>>, <<PlainMetric, ValueMetric>>}

\* prepare_metrics(metrics, pool): set_pool on every PoolMetric
prepare_metrics(ms, p) ==
    [i \in 1..Len(ms) |->
        IF ms[i].is_pool_metric THEN [ms[i] EXCEPT !.pool = Some(p)] ELSE ms[i]]

\* a slip __init__ could make: a final else that snapshots the parameters
init_state_per_run_default(mode) ==
    IF mode = "pool" THEN Some(get_pool_parameters("pool"))
    ELSE IF mode = "controller" THEN Some(get_controller_parameters("controller"))
    ELSE Some(get_N_parameters("parameters"))

\* a slip __init__ could make: the controller mode snapshots the pool
init_state_per_run_from_pool(mode) ==
    IF mode = "pool" THEN Some(get_pool_parameters("pool"))
    ELSE IF mode = "controller" THEN Some(get_pool_parameters("pool"))
    ELSE IF mode = "N" THEN Some(get_N_parameters("parameters"))
    ELSE None

\* StateLog.__init__: state_per_run is assigned in the three recognized modes only
init_state_per_run(mode) ==
    IF mode = "pool" THEN Some(get_pool_parameters("pool"))
    ELSE IF mode = "controller" THEN Some(get_controller_parameters("controller"))
    ELSE IF mode = "N" THEN Some(get_N_parameters("parameters"))
    ELSE None

StateLogInit ==
    /\ sim_mode \in SimModes
    /\ metrics \in {prepare_metrics(ms, "pool") : ms \in MetricLists}
    /\ state_per_trade = <<>>
    /\ state_per_run = init_state_per_run(sim_mode)
    /\ pool = 0
    /\ controller = 0
    /\ last_op = "__init__"
    /\ logs_ret = None
    /\ metrics_ret = None
    /\ update_calls = <<>>
    /\ reduced = FALSE
    /\ n_reductions = 0

\* the dict literal {"state_data": sd, **kwargs}: a later key replaces an earlier one
MakeRecord(sd, kw) ==
    [state_data   |-> IF kw.state_data # None THEN kw.state_data[1] ELSE sd,
     price_sample |-> kw.price_sample,
     volume       |-> kw.volume]

\* a slip update() could make: the N branch tests the controller mode again
update_records_twice(mode, spt, p, c, kw) ==
    LET s1 == IF mode = "pool"
              THEN Append(spt, MakeRecord(get_pool_state(p), kw))
              ELSE IF mode = "controller"
                   THEN Append(spt, MakeRecord(get_controller_state(p, c), kw))
                   ELSE spt
    IN  IF mode \in {"controller", "N"}
        THEN Append(s1, MakeRecord(get_controller_state(p, c), kw))
        ELSE s1

\* a slip update() could make: the new record is put in front of the old ones
update_records_prepend(mode, spt, p, c, kw) ==
    LET sd == IF mode = "pool" THEN get_pool_state(p) ELSE get_controller_state(p, c)
    IN  IF mode \in RecognizedModes THEN <<MakeRecord(sd, kw)>> \o spt ELSE spt

\* StateLog.update: self.state_per_trade after the if / elif and the second if
update_records(mode, spt, p, c, kw) ==
    LET s1 == IF mode = "pool"
              THEN Append(spt, MakeRecord(get_pool_state(p), kw))
              ELSE IF mode = "controller"
                   THEN Append(spt, MakeRecord(get_controller_state(p, c), kw))
                   ELSE spt
    IN  IF mode = "N"
        THEN Append(s1, MakeRecord(get_controller_state(p, c), kw))
        ELSE s1

update ==
    /\ Len(update_calls) < MaxUpdates
    /\ \E kw \in KwargsChoices :
        /\ state_per_trade' = update_records(sim_mode, state_per_trade, pool, controller, kw)
        /\ update_calls' = Append(update_calls,
                                  [kwargs |-> kw, pool |-> pool, controller |-> controller])
    /\ last_op' = "update"
    /\ logs_ret' = None
    /\ metrics_ret' = None
    /\ n_reductions' = 0
    /\ UNCHANGED <<sim_mode, metrics, state_per_run, pool, controller, reduced>>
    /\ UNCHANGED <<parse_vars, bands_vars, two_vars, agg_vars>>

\* one step of the simulation between two calls on the log
trade ==
    /\ pool + 1 \in PoolStates
    /\ pool' = pool + 1
    /\ controller' = controller + 1
    /\ last_op' = "trade"
    /\ UNCHANGED <<sim_mode, metrics, state_per_run, state_per_trade,
                   logs_ret, metrics_ret, update_calls, reduced, n_reductions>>
    /\ UNCHANGED <<parse_vars, bands_vars, two_vars, agg_vars>>

\* the keys of one record, and DataFrame(self.state_per_trade)'s columns
RecordKeys(rec) == {"state_data"} \cup {col \in Columns \ {"state_data"} : rec[col] # None}
FrameColumns(spt) == UNION {RecordKeys(spt[i]) : i \in 1..Len(spt)}

\* df[col].to_list(): one cell per record, NaN (None) where the record has no such key
Cell(rec, col) == IF col = "state_data" THEN Some(rec.state_data) ELSE rec[col]

LogsRaise(e) == [status |-> e, sim_parameters |-> None, tables |-> [col \in Columns |-> None]]

\* a slip get_logs() could make: a record without a price_sample is indexed by
\* timestamp 0 instead of ending the call
get_logs_result_lenient(spt, spr) ==
    IF spr = None
    THEN LogsRaise("AttributeError")
    ELSE LET times == [i \in 1..Len(spt) |->
                          IF spt[i].price_sample = None THEN 0
                          ELSE spt[i].price_sample[1].timestamp]
         IN  [status |-> "ok",
              sim_parameters |-> Some(spr[1]),
              tables |-> [col \in Columns |->
                  IF col \in FrameColumns(spt)
                  THEN Some([i \in 1..Len(spt) |->
                                [index |-> times[i], value |-> Cell(spt[i], col)]])
                  ELSE None]]

\* StateLog.get_logs: what the call returns or raises
get_logs_result(spt, spr) ==
    IF \E i \in 1..Len(spt) : spt[i].price_sample = None
    THEN LogsRaise("KeyError")
    ELSE IF spr = None
    THEN LogsRaise("AttributeError")
    ELSE LET times == [i \in 1..Len(spt) |-> spt[i].price_sample[1].timestamp]
         IN  [status |-> "ok",
              sim_parameters |-> Some(spr[1]),
              tables |-> [col \in Columns |->
                  IF col \in FrameColumns(spt)
                  THEN Some([i \in 1..Len(spt) |->
                                [index |-> times[i], value |-> Cell(spt[i], col)]])
                  ELSE None]]

\* a slip get_logs() could make: it hands the records over and starts a new list
get_logs_draining ==
    /\ n_reductions < MaxReductions
    /\ logs_ret' = Some(get_logs_result(state_per_trade, state_per_run))
    /\ state_per_trade' = <<>>
    /\ last_op' = "get_logs"
    /\ reduced' = TRUE
    /\ n_reductions' = n_reductions + 1
    /\ UNCHANGED <<sim_mode, metrics, state_per_run, pool, controller,
                   metrics_ret, update_calls>>
    /\ UNCHANGED <<parse_vars, bands_vars, two_vars, agg_vars>>

get_logs ==
    /\ n_reductions < MaxReductions
    /\ n_reductions' = n_reductions + 1
    /\ logs_ret' = Some(get_logs_result(state_per_trade, state_per_run))
    /\ last_op' = "get_logs"
    /\ reduced' = TRUE
    /\ UNCHANGED <<sim_mode, metrics, state_per_run, state_per_trade, pool, controller,
                   metrics_ret, update_calls>>
    /\ UNCHANGED <<parse_vars, bands_vars, two_vars, agg_vars>>

\* Metric.compute(state_logs) -> (per-trade series, summary value)
metric_compute(m, logs) ==
    <<[metric |-> m.name, per_trade |-> logs.tables["state_data"]],
      [metric |-> m.name, summary |-> logs.sim_parameters]>>

MetricsRaise(e) == [status |-> e, value |-> None]

\* StateLog.compute_metrics: what the call returns or raises
compute_metrics_result(ms, spt, spr) ==
    LET state_logs == get_logs_result(spt, spr)
        metric_data == [i \in 1..Len(ms) |-> metric_compute(ms[i], state_logs)]
    IN  IF state_logs.status # "ok" THEN MetricsRaise(state_logs.status)
        ELSE IF Len(ms) = 0 THEN MetricsRaise("ValueError")
        ELSE IF state_logs.tables["state_data"] = None THEN MetricsRaise("KeyError")
        ELSE [status |-> "ok",
              value |-> Some(<<state_logs.sim_parameters,
                               [i \in 1..Len(ms) |-> metric_data[i][1]],
                               [i \in 1..Len(ms) |-> metric_data[i][2]],
                               state_logs.tables["state_data"]>>)]

compute_metrics ==
    /\ n_reductions < MaxReductions
    /\ n_reductions' = n_reductions + 1
    /\ metrics_ret' = Some(compute_metrics_result(metrics, state_per_trade, state_per_run))
    /\ last_op' = "compute_metrics"
    /\ reduced' = TRUE
    /\ UNCHANGED <<sim_mode, metrics, state_per_run, state_per_trade, pool, controller,
                   logs_ret, update_calls>>
    /\ UNCHANGED <<parse_vars, bands_vars, two_vars, agg_vars>>

\* ================================================== two StateLog instances

\* update() calls on each of the two instances
MaxUpdatesEach == 1

Instances == {1, 2}
\* the list objects of the heap: one that no instance creates, one per instance
ListIds == {<<"list", n>> : n \in {0} \cup Instances}

\* a slip __init__ could make: the record list is one object of the class,
\* not a new list per instance
shared_list(i) == <<"list", 0>>

\* self.state_per_trade = []: a new list object for the instance
new_list(i) == <<"list", i>>

\* StateLog(pool_i, controller_i, metrics, parameters, sim_mode): the slots of
\* instance i after __init__, given its own pool, controller and metrics
StateLogNew(i, mode, ms) ==
    [sim_mode        |-> mode,
     metrics         |-> prepare_metrics(ms, i),
     state_per_run   |-> init_state_per_run(mode),
     state_per_trade |-> new_list(i),
     pool            |-> i,
     controller      |-> i]

\* the keyword arguments of one update() call on either instance
TwoKwargs == {kw \in KwargsChoices : kw.volume = None /\ kw.state_data = None}

\* the modes of the two instances: one per extractor, and an unrecognized one
TwoModes == {"pool", "N", "spot"}

TwoInit ==
    /\ instances \in {f \in [Instances -> {StateLogNew(i, mode, <<ValueMetric>>) :
                                              i \in Instances, mode \in TwoModes}] :
                         \A i \in Instances : f[i].pool = i}
    /\ heap = [l \in ListIds |-> <<>>]
    /\ objects = [i \in Instances |-> [pool |-> 0, controller |-> 0]]
    /\ two_calls = [i \in Instances |-> 0]
    /\ acting = None
    /\ two_ret = None

\* the records, the snapshot and the outputs of instance i
records_of(i) == heap[instances[i].state_per_trade]
logs_of(i) == get_logs_result(records_of(i), instances[i].state_per_run)
metrics_of(i) ==
    compute_metrics_result(instances[i].metrics, records_of(i), instances[i].state_per_run)

\* instance i's update(**kw)
two_update(i) ==
    /\ two_calls[i] < MaxUpdatesEach
    /\ \E kw \in TwoKwargs :
        heap' = [heap EXCEPT ![instances[i].state_per_trade] =
                    update_records(instances[i].sim_mode, @,
                                   objects[instances[i].pool].pool,
                                   objects[instances[i].controller].controller, kw)]
    /\ two_calls' = [two_calls EXCEPT ![i] = @ + 1]
    /\ acting' = Some([instance |-> i, op |-> "update"])
    /\ two_ret' = None
    /\ UNCHANGED <<instances, objects>>
    /\ UNCHANGED <<log_vars, parse_vars, bands_vars, agg_vars>>

\* one step of the simulation that instance i's pool and controller are in
two_trade(i) ==
    /\ objects[i].pool + 1 \in PoolStates
    /\ objects' = [objects EXCEPT ![i] = [pool |-> @.pool + 1,
                                          controller |-> @.controller + 1]]
    /\ acting' = Some([instance |-> i, op |-> "trade"])
    /\ two_ret' = None
    /\ UNCHANGED <<instances, heap, two_calls>>
    /\ UNCHANGED <<log_vars, parse_vars, bands_vars, agg_vars>>

\* instance i's get_logs()
two_get_logs(i) ==
    /\ acting' = Some([instance |-> i, op |-> "get_logs"])
    /\ two_ret' = Some(logs_of(i))
    /\ UNCHANGED <<instances, heap, objects, two_calls>>
    /\ UNCHANGED <<log_vars, parse_vars, bands_vars, agg_vars>>

\* instance i's compute_metrics()
two_compute_metrics(i) ==
    /\ acting' = Some([instance |-> i, op |-> "compute_metrics"])
    /\ two_ret' = Some(metrics_of(i))
    /\ UNCHANGED <<instances, heap, objects, two_calls>>
    /\ UNCHANGED <<log_vars, parse_vars, bands_vars, agg_vars>>

\* the two instances when the specification is not about them
TwoIdle ==
    /\ instances = None
    /\ heap = None
    /\ objects = None
    /\ two_calls = None
    /\ acting = None
    /\ two_ret = None

\* =============================================================== autosim

\* keyword arguments in one autosim() call
MaxKwargs == 2
\* elements of an iterable given as a keyword's value
MaxIterLen == 2

\* the sweep parameters _parse_arguments names, and one keyword it does not
\* (days), in the order the loop over kwargs.items() visits them
ArgOrder == <<"A", "fee", "admin_fee", "loan_discount", "liquidation_discount", "N", "days">>
ArgNames == {ArgOrder[i] : i \in 1..Len(ArgOrder)}

ElemKinds == {"int", "float"}
IterElems == UNION {[1..n -> ElemKinds] : n \in 0..MaxIterLen}
\* a keyword's value: a bare number, or an iterable of numbers
Values ==
    {[shape |-> "scalar", elems |-> <<k>>] : k \in ElemKinds}
    \cup {[shape |-> "iterable", elems |-> e] : e \in IterElems}

KwargsSets ==
    UNION {[K -> Values] : K \in {S \in SUBSET ArgNames : Cardinality(S) <= MaxKwargs}}

\* isinstance(v, int)
IsInt(v) == v = "int"

\* a slip lines 125-137 could make: every recognized mode accepts the pool's names
input_args_of_pool(mode) ==
    IF mode \in {"pool", "controller", "N"} THEN {"A", "fee", "admin_fee"} ELSE {}

\* lines 125-137: the names accepted for the mode
input_args_of(mode) ==
    IF mode = "pool" THEN {"A", "fee", "admin_fee"}
    ELSE IF mode = "controller" THEN {"loan_discount", "liquidation_discount"}
    ELSE IF mode = "N" THEN {"N"}
    ELSE {}

\* lines 123-137: the strategy chosen for the mode (None is Python's None)
bands_strategy_of(mode) ==
    IF mode = "pool" THEN Some("init_y_bands_strategy")
    ELSE IF mode = "controller" THEN Some("user_loans_strategy")
    ELSE IF mode = "N" THEN Some("one_user_bands_strategy")
    ELSE None

\* a slip line 143 could make: any() where all() is meant
value_accepted_any(val) ==
    IF val.shape = "scalar"
    THEN "not_iterable"
    ELSE IF \E j \in 1..Len(val.elems) : IsInt(val.elems[j])
         THEN "ok"
         ELSE "not_int"

\* line 143: iterating a bare number raises TypeError ('int' object is not
\* iterable); all() over an iterable holds when every element is an int
value_accepted(val) ==
    IF val.shape = "scalar"
    THEN "not_iterable"
    ELSE IF \A j \in 1..Len(val.elems) : IsInt(val.elems[j])
         THEN "ok"
         ELSE "not_int"

\* lines 139-147: the loop over kwargs.items(), from the i-th keyword on
RECURSIVE parse_loop(_, _, _, _)
parse_loop(i, kw, input_args, acc) ==
    IF i > Len(ArgOrder)
    THEN [raised |-> None, variable_params |-> acc]
    ELSE LET key == ArgOrder[i]
         IN  IF key \notin DOMAIN kw \/ key \notin input_args
             THEN parse_loop(i + 1, kw, input_args, acc)
             ELSE IF value_accepted(kw[key]) = "ok"
                  THEN parse_loop(i + 1, kw, input_args, acc @@ (key :> kw[key]))
                  ELSE [raised |-> Some([exc |-> "TypeError", why |-> value_accepted(kw[key])]),
                        variable_params |-> acc]

EmptyParams == [k \in {} |-> None]

\* _parse_arguments(pool_metadata, sim_mode, **kwargs)
parse_arguments(mode, kw) ==
    LET r == parse_loop(1, kw, input_args_of(mode), EmptyParams)
    IN  [raised |-> r.raised,
         variable_params |-> r.variable_params,
         bands_strategy |-> bands_strategy_of(mode)]

ParseInit ==
    /\ pc = "autosim"
    /\ call \in [pool : {None, Some("0xpool")},
                 pool_metadata : {None, Some("metadata")},
                 sim_mode : SimModes,
                 kwargs : KwargsSets]
    /\ p_var = None
    /\ bands_strategy = None
    /\ raised = None
    /\ pipeline_args = None

\* lines 106-108: the assert, then pool_metadata or get_metadata(pool)
autosim_metadata ==
    /\ pc = "autosim"
    /\ IF call.pool = None /\ call.pool_metadata = None
       THEN /\ raised' = Some([exc |-> "AssertionError", why |-> "no_pool"])
            /\ pc' = "raised"
            /\ UNCHANGED call
       ELSE /\ call' = [call EXCEPT !.pool_metadata =
                            IF @ # None THEN @ ELSE Some("fetched_metadata")]
            /\ pc' = "parse"
            /\ UNCHANGED raised
    /\ UNCHANGED <<p_var, bands_strategy, pipeline_args>>
    /\ UNCHANGED <<log_vars, bands_vars, two_vars, agg_vars>>

\* line 109: p_var, bands_strategy = _parse_arguments(pool_metadata, sim_mode, **kwargs)
autosim_parse ==
    /\ pc = "parse"
    /\ LET r == parse_arguments(call.sim_mode, call.kwargs)
       IN  IF r.raised # None
           THEN /\ raised' = r.raised
                /\ pc' = "raised"
                /\ UNCHANGED <<p_var, bands_strategy>>
           ELSE /\ p_var' = Some(r.variable_params)
                /\ bands_strategy' = Some(r.bands_strategy)
                /\ pc' = "pipeline"
                /\ UNCHANGED raised
    /\ UNCHANGED <<call, pipeline_args>>
    /\ UNCHANGED <<log_vars, bands_vars, two_vars, agg_vars>>

\* lines 111-118: results = pipeline(...); return results
autosim_pipeline ==
    /\ pc = "pipeline"
    /\ pipeline_args' = Some([pool_metadata |-> call.pool_metadata[1],
                              sim_mode |-> call.sim_mode,
                              variable_params |-> p_var[1],
                              bands_strategy |-> bands_strategy[1]])
    /\ pc' = "returned"
    /\ UNCHANGED <<call, p_var, bands_strategy, raised>>
    /\ UNCHANGED <<log_vars, bands_vars, two_vars, agg_vars>>

\* ==================================================== band initialization

\* price samples in one series
MaxPrices == 3
\* a price sample is k / PriceDen for an integer k in 6..MaxPriceK
PriceDen == 4
MaxPriceK == 10
\* the fixed-point unit the pool keeps prices in (10**18 in the program)
Scale == 100

PriceKs == 6..MaxPriceK
PriceSeries == UNION {[1..n -> PriceKs] : n \in 0..MaxPrices}

\* int(price * 10**18): a float price as a fixed-point integer, truncated
ToFixed(k) == (k * Scale) \div PriceDen

RECURSIVE SeqMax(_), SeqMin(_)
\* prices.iloc[:, 0].max()
SeqMax(q) ==
    IF Len(q) = 1 THEN q[1]
    ELSE LET m == SeqMax(Tail(q)) IN IF q[1] > m THEN q[1] ELSE m
\* prices.iloc[:, 0].min()
SeqMin(q) ==
    IF Len(q) = 1 THEN q[1]
    ELSE LET m == SeqMin(Tail(q)) IN IF q[1] < m THEN q[1] ELSE m

\* pool.p_oracle_up(n): the upper oracle price of band n, base_price scaled by
\* (A - 1) / A once per band below band 0 and by A / (A - 1) once per band above
RECURSIVE p_oracle_up(_, _)
p_oracle_up(a, n) ==
    IF n = 0 THEN a.base_price
    ELSE IF n > 0 THEN (p_oracle_up(a, n - 1) * (a.A - 1)) \div a.A
    ELSE (p_oracle_up(a, n + 1) * a.A) \div (a.A - 1)

\* pool.p_oracle_down(n): the lower oracle price of band n
p_oracle_down(a, n) == p_oracle_up(a, n + 1)

\* the band the seeded range starts at: the last band, counting up from the band
\* of the highest prices, whose upper price is still at or above p
RECURSIVE top_band_from(_, _, _)
top_band_from(a, p, n) ==
    IF p_oracle_up(a, n) < p THEN top_band_from(a, p, n - 1)
    ELSE IF p_oracle_up(a, n + 1) >= p THEN top_band_from(a, p, n + 1)
    ELSE n

\* the band the seeded range ends at: the first band whose lower price is at or
\* below p
RECURSIVE bottom_band_from(_, _, _)
bottom_band_from(a, p, n) ==
    IF p_oracle_down(a, n) > p THEN bottom_band_from(a, p, n + 1)
    ELSE IF p_oracle_down(a, n - 1) <= p THEN bottom_band_from(a, p, n - 1)
    ELSE n

\* a slip the seeding could make: the range stops one band short of the lowest price
seeded_max_band_short(a, q) == bottom_band_from(a, ToFixed(SeqMin(q)), 0) - 1

seeded_min_band(a, q) == top_band_from(a, ToFixed(SeqMax(q)), 0)
seeded_max_band(a, q) == bottom_band_from(a, ToFixed(SeqMin(q)), 0)

\* a slip the seeding could make: the curve is left priced at the bottom of the range
seeded_active_band_bottom(a, q) == seeded_max_band(a, q)

\* the active band after seeding: the top of the seeded range
seeded_active_band(a, q) == seeded_min_band(a, q)

\* a slip the seeding could make: the deposit is written to the stablecoin side
seeded_balances_swapped(lo, hi, ty) ==
    [x |-> [n \in lo..hi |-> ty \div (hi - lo + 1)],
     y |-> [n \in lo..hi |-> 0]]

\* the balances after seeding: the deposit split evenly over the bands, all of it
\* collateral
seeded_balances(lo, hi, ty) ==
    [x |-> [n \in lo..hi |-> 0],
     y |-> [n \in lo..hi |-> ty \div (hi - lo + 1)]]

\* the inputs the strategy rejects before it touches the pool
degenerate_input(q, ty) ==
    \/ Len(q) = 0
    \/ ty <= 0
    \/ SeqMax(q) = SeqMin(q)

\* the pool create_sim_pool() hands to the strategy
PoolBefore(A) ==
    [A |-> A, base_price |-> 2 * Scale,
     min_band |-> 0, max_band |-> 1, active_band |-> 0,
     bands_x |-> [n \in 0..1 |-> 0], bands_y |-> [n \in 0..1 |-> Scale],
     price_oracle |-> 2 * Scale, timestamp |-> 0]

BandsInit ==
    /\ bpc = "start"
    /\ prices \in PriceSeries
    /\ total_y \in {0, 10 * Scale, 24 * Scale}
    /\ amm \in {PoolBefore(A) : A \in {5, 10}}

\* init_y_bands_strategy(pool, prices, total_y=...)
init_y_bands_strategy ==
    /\ bpc = "start"
    /\ IF degenerate_input(prices, total_y)
       THEN /\ bpc' = "failed"
            /\ UNCHANGED amm
       ELSE LET lo == seeded_min_band(amm, prices)
                hi == seeded_max_band(amm, prices)
                b  == seeded_balances(lo, hi, total_y)
            IN  /\ amm' = [amm EXCEPT !.min_band = lo,
                                      !.max_band = hi,
                                      !.active_band = seeded_active_band(amm, prices),
                                      !.bands_x = b.x,
                                      !.bands_y = b.y,
                                      !.price_oracle = ToFixed(prices[1])]
                /\ bpc' = "seeded"
    /\ UNCHANGED <<prices, total_y>>
    /\ UNCHANGED <<log_vars, parse_vars, two_vars, agg_vars>>

\* pool.prepare_for_run(prices): the oracle starts at the first price sample
pool_prepare_for_run ==
    /\ bpc = "seeded"
    /\ amm' = [amm EXCEPT !.price_oracle = ToFixed(prices[1]), !.timestamp = 1]
    /\ bpc' = "prepared"
    /\ UNCHANGED <<prices, total_y>>
    /\ UNCHANGED <<log_vars, parse_vars, two_vars, agg_vars>>

\* pool.get_p(): the curve is priced at the top of its active band, where the
\* seeding leaves it
get_p(a) == p_oracle_up(a, a.active_band)

\* ============================================== SimAggregateStablePrice

\* price samples in one series handed to the aggregator
MaxAggLen == 2
\* the times a series may start at, in half seconds, and the prices it may hold
AggTicks == 0..3
AggPrices == {6, 7, 9}

\* a price series: the time of its first row and its first column
AggSeries ==
    [t0 : AggTicks, ks : UNION {[1..n -> AggPrices] : n \in 0..MaxAggLen}]

\* int(prices.index[0].timestamp()): whole seconds, truncated
init_ts(series) == series.t0 \div 2

\* the aggregator after its construction
AggNew == [last_price |-> Scale, last_timestamp |-> 0]

\* AggregateStablePrice.prepare_for_run(prices, keep_price): the states the
\* parent class may leave the aggregator in
ParentOutcomes(a, series, keep_price) ==
    [last_price : {a.last_price, Scale}, last_timestamp : {a.last_timestamp, 0}]

\* a slip the override could make: it sets the first price whatever keep_price is
override_last_price_always(keep_price, left_price, series) ==
    ToFixed(series.ks[1])

\* self.last_price after the `if not keep_price` block
override_last_price(keep_price, left_price, series) ==
    IF ~keep_price THEN ToFixed(series.ks[1]) ELSE left_price

AggInit ==
    /\ apc = "ready"
    /\ agg = AggNew
    /\ agg_args \in [prices : AggSeries, keep_price : BOOLEAN]
    /\ parent_left = None

\* SimAggregateStablePrice.prepare_for_run(prices, keep_price): the parent's
\* method, then the override's own assignments; indexing row 0 of an empty
\* series raises IndexError after the parent has run
prepare_for_run ==
    /\ apc = "ready"
    /\ \E left \in ParentOutcomes(agg, agg_args.prices, agg_args.keep_price) :
        /\ parent_left' = Some(left)
        /\ IF Len(agg_args.prices.ks) = 0
           THEN /\ agg' = left
                /\ apc' = "raised"
           ELSE /\ agg' = [last_price |-> override_last_price(agg_args.keep_price,
                                                              left.last_price,
                                                              agg_args.prices),
                           last_timestamp |-> init_ts(agg_args.prices)]
                /\ apc' = "prepared"
    /\ UNCHANGED agg_args
    /\ UNCHANGED <<log_vars, parse_vars, bands_vars, two_vars>>

\* the driver starts the next run: a new series for the same aggregator
next_run ==
    /\ apc \in {"prepared", "raised"}
    /\ apc' = "ready"
    /\ agg_args' \in [prices : AggSeries, keep_price : BOOLEAN]
    /\ parent_left' = None
    /\ UNCHANGED agg
    /\ UNCHANGED <<log_vars, parse_vars, bands_vars, two_vars>>

\* the aggregator when the specification is not about it
AggIdle ==
    /\ apc = "idle"
    /\ agg = None
    /\ agg_args = None
    /\ parent_left = None

\* the band initialization when the specification is not about it
BandsIdle ==
    /\ bpc = "idle"
    /\ prices = <<>>
    /\ total_y = 0
    /\ amm = None

\* the autosim() call when the specification is not about it
ParseIdle ==
    /\ pc = "idle"
    /\ call = None
    /\ p_var = None
    /\ bands_strategy = None
    /\ raised = None
    /\ pipeline_args = None

\* the log when the specification is not about it
LogIdle ==
    /\ sim_mode = "pool"
    /\ metrics = <<>>
    /\ state_per_trade = <<>>
    /\ state_per_run = None
    /\ pool = 0
    /\ controller = 0
    /\ last_op = "idle"
    /\ logs_ret = None
    /\ metrics_ret = None
    /\ update_calls = <<>>
    /\ reduced = FALSE
    /\ n_reductions = 0

\* ======================================================== specifications

Init == StateLogInit /\ ParseIdle /\ BandsIdle /\ TwoIdle /\ AggIdle
Next == update \/ trade \/ get_logs \/ compute_metrics
Spec == Init /\ [][Next]_vars

InitParse == ParseInit /\ LogIdle /\ BandsIdle /\ TwoIdle /\ AggIdle
NextParse == autosim_metadata \/ autosim_parse \/ autosim_pipeline
SpecParse == InitParse /\ [][NextParse]_vars

InitBands == BandsInit /\ LogIdle /\ ParseIdle /\ TwoIdle /\ AggIdle
NextBands == init_y_bands_strategy \/ pool_prepare_for_run
SpecBands == InitBands /\ [][NextBands]_vars

InitTwo == TwoInit /\ LogIdle /\ ParseIdle /\ BandsIdle /\ AggIdle
NextTwo ==
    \/ \E i \in Instances : two_update(i)
    \/ \E i \in Instances : two_trade(i)
    \/ \E i \in Instances : two_get_logs(i)
    \/ \E i \in Instances : two_compute_metrics(i)
SpecTwo == InitTwo /\ [][NextTwo]_vars

InitAgg == AggInit /\ LogIdle /\ ParseIdle /\ BandsIdle /\ TwoIdle
NextAgg == prepare_for_run \/ next_run
SpecAgg == InitAgg /\ [][NextAgg]_vars

\* ================================================================ claims

\* every update() call so far carried a price_sample keyword
AllCarryPriceSample ==
    \A i \in 1..Len(update_calls) : update_calls[i].kwargs.price_sample # None

\* C1: in a recognized mode every update() call appends exactly one record, so
\* after N calls the record sequence has length N; and when every call carried a
\* price_sample, get_logs() returns without error one table per field any call
\* set, each of exactly N rows, row i indexed by the timestamp of call i and
\* holding what call i passed
C1_RecordCount ==
    sim_mode \in RecognizedModes =>
        /\ Len(state_per_trade) = Len(update_calls)
        /\ (logs_ret # None /\ Len(update_calls) >= 1 /\ AllCarryPriceSample) =>
            LET r == logs_ret[1]
                n == Len(update_calls)
            IN  /\ r.status = "ok"
                /\ r.tables["state_data"] # None
                /\ r.tables["price_sample"] # None
                /\ (r.tables["volume"] # None) <=>
                       (\E i \in 1..n : update_calls[i].kwargs.volume # None)
                /\ \A col \in Columns : r.tables[col] # None =>
                    /\ Len(r.tables[col][1]) = n
                    /\ \A i \in 1..n :
                        r.tables[col][1][i].index =
                            update_calls[i].kwargs.price_sample[1].timestamp
                /\ \A col \in {"price_sample", "volume"} : r.tables[col] # None =>
                    \A i \in 1..n :
                        r.tables[col][1][i].value = update_calls[i].kwargs[col]

\* two updates with different price samples, then get_logs() returned its tables
C1_Witness ==
    /\ sim_mode \in RecognizedModes
    /\ Len(update_calls) = 2
    /\ AllCarryPriceSample
    /\ update_calls[1].kwargs.price_sample # update_calls[2].kwargs.price_sample
    /\ logs_ret # None
    /\ logs_ret[1].status = "ok"
    /\ Len(logs_ret[1].tables["state_data"][1]) = 2

\* C2: in a recognized mode get_logs() after zero update() calls ends in an
\* error and returns no tables
C2_EmptyRunRejected ==
    (sim_mode \in RecognizedModes /\ Len(update_calls) = 0 /\ logs_ret # None) =>
        logs_ret[1].status # "ok"

\* C3: get_logs() and compute_metrics() leave the record sequence and the
\* parameter snapshot as they are, and a call made when the same operation has
\* already returned since the last update() returns that same output again
C3_Idempotent ==
    [][/\ last_op' \in {"get_logs", "compute_metrics"} =>
            /\ state_per_trade' = state_per_trade
            /\ state_per_run' = state_per_run
       /\ (last_op' = "get_logs" /\ logs_ret # None) => logs_ret' = logs_ret
       /\ (last_op' = "compute_metrics" /\ metrics_ret # None) =>
            metrics_ret' = metrics_ret]_vars

\* three reductions in a row on a non-empty log, both operations having returned
\* their tables
C3_Witness ==
    /\ n_reductions >= 3
    /\ Len(state_per_trade) >= 1
    /\ logs_ret # None
    /\ logs_ret[1].status = "ok"
    /\ metrics_ret # None
    /\ metrics_ret[1].status = "ok"

\* C4: once get_logs() or compute_metrics() has been called, no later operation
\* changes the record sequence
C4_ImmutableOnceReduced ==
    [][reduced => state_per_trade' = state_per_trade]_vars

\* C5: with a sim_mode outside the recognized three, autosim never gets past
\* argument parsing: no parsed result exists and the pipeline is not started
C5_UnknownModeRejected ==
    call.sim_mode \notin RecognizedModes =>
        /\ pc \notin {"pipeline", "returned"}
        /\ p_var = None
        /\ pipeline_args = None

\* the keywords of the call whose name is accepted for its mode
AcceptedKeys == DOMAIN call.kwargs \cap input_args_of(call.sim_mode)

\* some accepted keyword is an iterable with a non-integer element
HasBadIterable ==
    \E key \in AcceptedKeys :
        /\ call.kwargs[key].shape = "iterable"
        /\ \E j \in 1..Len(call.kwargs[key].elems) : call.kwargs[key].elems[j] # "int"

\* C6: in a recognized mode, when an accepted sweep parameter is an iterable
\* with a non-integer element, the pipeline is never started and no parsed
\* result exists, and once _parse_arguments has run the call has ended in a
\* TypeError
C6_NonIntRejected ==
    (call.sim_mode \in RecognizedModes /\ HasBadIterable) =>
        /\ pipeline_args = None
        /\ p_var = None
        /\ (pc \notin {"autosim", "parse"} /\ call.pool_metadata # None) =>
            /\ pc = "raised"
            /\ raised # None
            /\ raised[1].exc = "TypeError"

\* _parse_arguments raised on an iterable that mixes ints and a non-integer
C6_Witness ==
    /\ pc = "raised"
    /\ call.sim_mode \in RecognizedModes
    /\ raised = Some([exc |-> "TypeError", why |-> "not_int"])
    /\ \E key \in AcceptedKeys :
        /\ call.kwargs[key].shape = "iterable"
        /\ \E i, j \in 1..Len(call.kwargs[key].elems) :
            /\ call.kwargs[key].elems[i] = "int"
            /\ call.kwargs[key].elems[j] = "float"

\* every accepted keyword is a single int or an iterable of ints
AllAcceptedAreInts ==
    \A key \in AcceptedKeys :
        \A j \in 1..Len(call.kwargs[key].elems) : call.kwargs[key].elems[j] = "int"

\* C7: in a recognized mode, when every accepted sweep parameter is a single
\* int or an iterable of ints, _parse_arguments raises nothing and returns each
\* of them in the variable parameters
C7_IntOrIterableAccepted ==
    (/\ call.sim_mode \in RecognizedModes
     /\ AllAcceptedAreInts
     /\ pc \notin {"autosim", "parse"}
     /\ call.pool_metadata # None) =>
        /\ pc # "raised"
        /\ p_var # None
        /\ \A key \in AcceptedKeys :
            key \in DOMAIN p_var[1] /\ p_var[1][key] = call.kwargs[key]

\* C8: after a band initialization and prepare_for_run on the same prices, the
\* upper oracle price of min_band is at least the highest price and the lower
\* oracle price of max_band is at most the lowest price, both in fixed point
C8_Bracketing ==
    bpc = "prepared" =>
        /\ p_oracle_up(amm, amm.min_band) >= ToFixed(SeqMax(prices))
        /\ p_oracle_down(amm, amm.max_band) <= ToFixed(SeqMin(prices))

\* a prepared pool whose series does not start at its highest price and whose
\* seeded range spans several bands
C8_Witness ==
    /\ bpc = "prepared"
    /\ prices[1] < SeqMax(prices)
    /\ prices[1] > SeqMin(prices)
    /\ amm.max_band > amm.min_band + 1

C11_FourTuplePerMetric ==
    (/\ sim_mode \in RecognizedModes
     /\ Len(update_calls) >= 1
     /\ AllCarryPriceSample
     /\ metrics_ret # None) =>
        LET r == metrics_ret[1]
            state_logs == get_logs_result(state_per_trade, state_per_run)
        IN  /\ r.status = "ok"
            /\ Len(r.value[1]) = 4
            /\ r.value[1][1] = state_logs.sim_parameters
            /\ Len(r.value[1][2]) = Len(metrics)
            /\ Len(r.value[1][3]) = Len(metrics)
            /\ \A i \in 1..Len(metrics) :
                /\ r.value[1][2][i] = metric_compute(metrics[i], state_logs)[1]
                /\ r.value[1][3][i] = metric_compute(metrics[i], state_logs)[2]
            /\ r.value[1][4] = state_logs.tables["state_data"]

\* C12: a log constructed with a sim_mode outside the recognized three exists
\* with state_per_run unset; its record sequence stays empty whatever update()
\* calls are made, and every get_logs() and compute_metrics() call on it ends
\* in an error and returns no tables
C12_UnrecognizedModeLog ==
    sim_mode \notin RecognizedModes =>
        /\ state_per_run = None
        /\ Len(state_per_trade) = 0
        /\ logs_ret # None =>
            /\ logs_ret[1].status # "ok"
            /\ logs_ret[1].sim_parameters = None
            /\ \A col \in Columns : logs_ret[1].tables[col] = None
        /\ metrics_ret # None =>
            /\ metrics_ret[1].status # "ok"
            /\ metrics_ret[1].value = None

\* an unrecognized-mode log after two update() calls carrying price samples,
\* get_logs() and compute_metrics() both having been called since
C12_Witness ==
    /\ sim_mode \notin RecognizedModes
    /\ Len(update_calls) = 2
    /\ AllCarryPriceSample
    /\ Len(metrics) >= 1
    /\ logs_ret # None
    /\ logs_ret[1].status = "AttributeError"
    /\ metrics_ret # None
    /\ metrics_ret[1].status = "AttributeError"

\* what the extractor of the log's mode returns for the pool and controller
\* as they were at update() call i
extractor_output(i) ==
    IF sim_mode = "pool"
    THEN get_pool_state(update_calls[i].pool)
    ELSE get_controller_state(update_calls[i].pool, update_calls[i].controller)

\* C13: in a recognized mode the state_data field of the record appended by
\* update() call i is the output of the mode's extractor at that call, whatever
\* keywords the caller passed, a keyword named state_data included
C13_StateDataFromExtractor ==
    sim_mode \in RecognizedModes =>
        \A i \in 1..Len(state_per_trade) :
            /\ i <= Len(update_calls)
            /\ state_per_trade[i].state_data = extractor_output(i)

\* some recorded update() call was made without a price_sample keyword
SomeRecordLacksPriceSample ==
    \E i \in 1..Len(state_per_trade) : state_per_trade[i].price_sample = None

\* C14: when some recorded update() call carried no price_sample, get_logs()
\* and compute_metrics() end in a KeyError and return no tables, in every
\* mode and whatever state_data holds; when get_logs() returns tables, row i
\* of every table is indexed by the timestamp of the price_sample that the
\* i-th update() call passed
C14_IndexedByPriceSample ==
    /\ (SomeRecordLacksPriceSample /\ logs_ret # None) =>
        /\ logs_ret[1].status = "KeyError"
        /\ \A col \in Columns : logs_ret[1].tables[col] = None
    /\ (SomeRecordLacksPriceSample /\ metrics_ret # None) =>
        /\ metrics_ret[1].status = "KeyError"
        /\ metrics_ret[1].value = None
    /\ (logs_ret # None /\ logs_ret[1].status = "ok") =>
        \A col \in Columns : logs_ret[1].tables[col] # None =>
            /\ Len(logs_ret[1].tables[col][1]) = Len(state_per_trade)
            /\ \A i \in 1..Len(state_per_trade) :
                /\ i <= Len(update_calls)
                /\ update_calls[i].kwargs.price_sample # None
                /\ logs_ret[1].tables[col][1][i].index =
                       update_calls[i].kwargs.price_sample[1].timestamp

\* two recorded calls, the first with a price_sample and the second without,
\* and both reductions have been called since
C14_Witness ==
    /\ Len(state_per_trade) = 2
    /\ state_per_trade[1].price_sample # None
    /\ state_per_trade[2].price_sample = None
    /\ Len(metrics) >= 1
    /\ logs_ret # None
    /\ metrics_ret # None

\* C15: every step leaves the records appended so far as they are and where
\* they are: the old record sequence is a prefix of the new one, an update()
\* adds at most one record at the end, and no other operation changes the
\* sequence at all
C15_AppendOnly ==
    [][/\ Len(state_per_trade') >= Len(state_per_trade)
       /\ SubSeq(state_per_trade', 1, Len(state_per_trade)) = state_per_trade
       /\ Len(state_per_trade') <= Len(state_per_trade) + 1
       /\ last_op' # "update" => state_per_trade' = state_per_trade]_vars

\* two different records on a log whose last operation was a reduction
C15_Witness ==
    /\ Len(state_per_trade) = 2
    /\ state_per_trade[1] # state_per_trade[2]
    /\ reduced
    /\ last_op \in {"get_logs", "compute_metrics"}

\* the snapshot is the one of the source that matches the mode
SnapshotMatchesMode ==
    /\ sim_mode = "pool" => state_per_run = Some(get_pool_parameters("pool"))
    /\ sim_mode = "controller" =>
        state_per_run = Some(get_controller_parameters("controller"))
    /\ sim_mode = "N" => state_per_run = Some(get_N_parameters("parameters"))

InstanceView(j) ==
    <<records_of(j), instances[j].state_per_run, logs_of(j), metrics_of(j)>>

\* C17: an operation on one of the two instances, or a trade in its pool,
\* leaves the other instance's records, snapshot and outputs as they were
C17_InstancesIsolated ==
    [][\A i, j \in Instances :
          (acting' # None /\ acting'[1].instance = i /\ j # i) =>
              InstanceView(j)' = InstanceView(j)]_vars

\* instance 1 has just been updated while instance 2 already held a record,
\* both in recognized modes, and the two record sequences differ
C17_Witness ==
    /\ acting = Some([instance |-> 1, op |-> "update"])
    /\ instances[1].sim_mode \in RecognizedModes
    /\ instances[2].sim_mode \in RecognizedModes
    /\ Len(records_of(1)) = 1
    /\ Len(records_of(2)) = 1
    /\ records_of(1) # records_of(2)

\* C18: whenever prepare_for_run returns or raises, the parent's method has
\* run; when it returns, on a non-empty series, last_timestamp is the whole
\* seconds of the first row's time, last_price is the first price in fixed
\* point when keep_price is false, and last_price is what the parent left
\* when keep_price is true
C18_PrepareForRun ==
    /\ apc \in {"prepared", "raised"} => parent_left # None
    /\ apc = "raised" => Len(agg_args.prices.ks) = 0
    /\ apc = "prepared" =>
        /\ Len(agg_args.prices.ks) >= 1
        /\ agg.last_timestamp = agg_args.prices.t0 \div 2
        /\ ~agg_args.keep_price =>
            agg.last_price = (agg_args.prices.ks[1] * Scale) \div PriceDen
        /\ agg_args.keep_price => agg.last_price = parent_left[1].last_price

\* a run prepared with keep_price true on a two-row series: the aggregator
\* keeps a price an earlier run gave it, which is not the first price of this
\* series, and takes this series' start time
C18_Witness ==
    /\ apc = "prepared"
    /\ agg_args.keep_price
    /\ Len(agg_args.prices.ks) = 2
    /\ agg_args.prices.ks[1] # agg_args.prices.ks[2]
    /\ agg.last_price # Scale
    /\ agg.last_price # ToFixed(agg_args.prices.ks[1])
    /\ agg.last_timestamp = 1

\* the keyword names and the band strategy the claim gives for each mode
SweepNames(mode) ==
    CASE mode = "pool" -> {"A", "fee", "admin_fee"}
      [] mode = "controller" -> {"loan_discount", "liquidation_discount"}
      [] mode = "N" -> {"N"}
StrategyName(mode) ==
    CASE mode = "pool" -> "init_y_bands_strategy"
      [] mode = "controller" -> "user_loans_strategy"
      [] mode = "N" -> "one_user_bands_strategy"

\* every keyword of the call that the mode accepts is an iterable of ints
AcceptedAreIntIterables ==
    \A key \in DOMAIN call.kwargs \cap SweepNames(call.sim_mode) :
        /\ call.kwargs[key].shape = "iterable"
        /\ \A j \in 1..Len(call.kwargs[key].elems) : call.kwargs[key].elems[j] = "int"

====
